---------------------------- MODULE Spec2Model ----------------------------
(***************************************************************************)
(* Halftime game: the tempo residual / significance engine                 *)
(* (src/app/plots/tempo.py), the plot cache that stores its results        *)
(* (src/app/util/plot_cache.py, src/scripts/generate_cache.py) and the two *)
(* front-ends that score a user's prediction against them                  *)
(* (src/app/main.py, src/app/game_pygame.py).                              *)
(*                                                                         *)
(* Python floats are modelled in fixed point: a time, a residual, a mean   *)
(* or a standard deviation x is the integer x * Scale, a probability p is  *)
(* the integer p * PScale.  Python's None in a numeric slot is NoneNum, in *)
(* a possession-start-type slot it is NoType.                              *)
(***************************************************************************)
EXTENDS Integers, Sequences, FiniteSets, TLC

VARIABLES
    \* ---- one call of a statistics helper of tempo.py
    call,             \* the helper called and its arguments
    ret,              \* its return value, NoRet before the call returns
    \* ---- one call of build_tempo_figure
    tfs_df,           \* the possession table passed in (a sequence of rows)
    closing_total,    \* the market total passed in, NoneNum when absent
    etm_fault,        \* on which calls the Expected Tempo Model raises
    pc,               \* position in build_tempo_figure
    residual_data,    \* its local residual_data (NoData for None)
    agg,              \* the loop's local lists and counters (NoData before)
    fig,              \* the figure built: "none", "p1_only", "p1_with_table"
    etm_log,          \* arguments of every Expected Tempo Model call made
    logged,           \* number of failures printed by the except blocks
    resid_error,      \* whether the residual try block caught an exception
    \* ---- the plot cache and the two front-ends reading it
    cache,            \* per game: its possession table and its residual file
    session_state,    \* Streamlit st.session_state
    pg,               \* the fields of the pygame HalftimeGame object
    \* ---- residual computations of several games running interleaved
    calls,            \* per call: its position, loop index and result
    frames,           \* the list and counter objects of the calls, by address
    globals,          \* objects the calls share: the callers' tables, STD_DEVS
    \* ---- the trend layer of the Period 1 plot
    p1_trend,         \* x, y, the smoothed curve, change points, lines drawn
    \* ---- pregenerate_plots_for_games and the cache directory
    disk,             \* per game: writes of its plot file, residual file present
    pregen,           \* the call: arguments, games_to_process, position, counts
    plot_call         \* one call of generate_plot_for_game: stages and result

figVars  == <<tfs_df, closing_total, etm_fault, pc, residual_data, agg, fig,
              etm_log, logged, resid_error>>
statVars == <<call, ret>>
gameVars == <<cache, session_state, pg>>
pairVars == <<calls, frames, globals>>
trendVars == <<p1_trend>>
genVars == <<disk, pregen, plot_call>>
vars     == <<call, ret, tfs_df, closing_total, etm_fault, pc, residual_data,
              agg, fig, etm_log, logged, resid_error, cache,
              session_state, pg, calls, frames, globals, p1_trend,
              disk, pregen, plot_call>>

---------------------------------------------------------------------------
(* Number representation *)

Scale == 1000
PScale == 100000
PHalf == PScale \div 2
NoneNum == -999999999
NoType == "NoneType"
NoRet == <<>>
NoData == <<>>

Abs(a) == IF a < 0 THEN -a ELSE a

\* float division a / b for b > 0, rounded to the nearest representable value
DivRound(a, b) ==
    IF a >= 0 THEN (2 * a + b) \div (2 * b) ELSE -((2 * (-a) + b) \div (2 * b))

\* fixed-point quotient x / y of two fixed-point numbers
FDiv(x, y) == DivRound(x * Scale, y)

RECURSIVE SqrtSearch(_, _, _)
SqrtSearch(v, lo, hi) ==
    IF lo >= hi THEN lo
    ELSE LET mid == (lo + hi + 1) \div 2
         IN IF mid * mid <= v THEN SqrtSearch(v, mid, hi)
                              ELSE SqrtSearch(v, lo, mid - 1)

\* np.sqrt on an integer-valued quantity: the largest r with r * r <= v
ISqrt(v) == SqrtSearch(v, 0, 46000)

RECURSIVE SumSeq(_)
SumSeq(s) == IF s = <<>> THEN 0 ELSE Head(s) + SumSeq(Tail(s))

\* np.mean of a non-empty list
NpMean(s) == DivRound(SumSeq(s), Len(s))

RECURSIVE Insert(_, _)
Insert(x, s) ==
    IF s = <<>> THEN <<x>>
    ELSE IF x <= Head(s) THEN <<x>> \o s
    ELSE <<Head(s)>> \o Insert(x, Tail(s))

RECURSIVE SortList(_)
SortList(s) == IF s = <<>> THEN <<>> ELSE Insert(Head(s), SortList(Tail(s)))

\* np.median of a non-empty list: the middle element of the sorted list, or
\* the mean of the two middle elements
NpMedian(s) ==
    LET t == SortList(s)
        n == Len(s)
    IN IF n % 2 = 1 THEN t[(n + 1) \div 2]
       ELSE DivRound(t[n \div 2] + t[n \div 2 + 1], 2)

RECURSIVE CountAbove(_)
CountAbove(s) ==
    IF s = <<>> THEN 0
    ELSE (IF Head(s) > 0 THEN 1 ELSE 0) + CountAbove(Tail(s))

\* dict.get(key, default)
Get(d, k, default) == IF k \in DOMAIN d THEN d[k] ELSE default

---------------------------------------------------------------------------
(* Statistics helpers of tempo.py *)

KnownTypes == {"rebound", "turnover", "oppo_made_shot", "oppo_made_ft"}
BucketOrder == <<"rebound", "turnover", "oppo_made_shot", "oppo_made_ft", "other">>
Buckets == {BucketOrder[i] : i \in 1..Len(BucketOrder)}

STD_DEVS ==
    (1 :> [rebound |-> 8500, turnover |-> 8500,
           oppo_made_shot |-> 10000, oppo_made_ft |-> 9000])
    @@
    (2 :> [rebound |-> 8500, turnover |-> 8500,
           oppo_made_shot |-> 10000, oppo_made_ft |-> 9000])

\* str(x).lower() on the type tags that occur
Lower(s) ==
    CASE s = "Rebound" -> "rebound"
      [] s = "TURNOVER" -> "turnover"
      [] s = "Oppo_Made_Shot" -> "oppo_made_shot"
      [] OTHER -> s

\* truth value of a type tag: None and "" are falsy
Truthy(t) == t # NoType /\ t # ""

\* Phi(z) - 0.5 at z = 0.0, 0.1, ..., 4.5 (PScale units)
ErfHalfTable ==
    << 0, 3983, 7926, 11791, 15542, 19146, 22575, 25804, 28814, 31594,
       34134, 36433, 38493, 40320, 41924, 43319, 44520, 45543, 46407, 47128,
       47725, 48214, 48610, 48928, 49180, 49379, 49534, 49653, 49744, 49813,
       49865, 49903, 49931, 49952, 49966, 49977, 49984, 49989, 49993, 49995,
       49997, 49998, 49999, 49999, 49999, 50000 >>

\* 0.5 * erf(z / sqrt(2)) for z >= 0, linear between the tabulated points
ErfHalf(z) ==
    LET step == Scale \div 10
        k == z \div step
    IN IF k + 1 >= Len(ErfHalfTable) THEN ErfHalfTable[Len(ErfHalfTable)]
       ELSE ErfHalfTable[k + 1]
            + DivRound((ErfHalfTable[k + 2] - ErfHalfTable[k + 1]) * (z % step), step)

\* stats.norm.cdf(z) / norm_cdf_approx(z) = 0.5 * (1 + erf(z / sqrt(2)))
NormCdf(z) == IF z >= 0 THEN PHalf + ErfHalf(z) ELSE PHalf - ErfHalf(-z)

\* variant: no neutral result for an empty sample or a zero deviation; the
\* limit of the formula is returned instead
p_value_no_neutral_guard(mean_residual, n, std_dev) ==
    IF n = 0 \/ std_dev = 0
    THEN (IF mean_residual > 0 THEN PScale
          ELSE IF mean_residual < 0 THEN 0 ELSE PHalf)
    ELSE LET se == FDiv(std_dev, ISqrt(n * Scale * Scale))
         IN NormCdf(FDiv(mean_residual, se))

\* variant: the mean_residual > 0 branch returns p_slower itself
p_value_slower_tail(mean_residual, n, std_dev) ==
    IF n = 0 \/ std_dev = 0 THEN PHalf
    ELSE LET se == FDiv(std_dev, ISqrt(n * Scale * Scale))
             z == FDiv(mean_residual, se)
         IN IF mean_residual > 0 THEN PScale - NormCdf(z) ELSE NormCdf(z)

calculate_p_value(mean_residual, n, std_dev) ==
    IF n = 0 \/ std_dev = 0 THEN PHalf
    ELSE LET se == FDiv(std_dev, ISqrt(n * Scale * Scale))
             z == FDiv(mean_residual, se)
         IN IF mean_residual > 0
            THEN LET p_slower == PScale - NormCdf(z) IN PScale - p_slower
            ELSE LET p_faster == NormCdf(z) IN p_faster

\* variant: the lookup always reads the period 1 table
get_std_dev_period_1(period, poss_start_type, std_devs) ==
    LET poss_type == IF Truthy(poss_start_type) THEN Lower(poss_start_type)
                     ELSE "rebound"
    IN Get(Get(std_devs, 1, <<>>), poss_type,
           Get(Get(std_devs, 1, <<>>), "rebound", 8500))

get_std_dev(period, poss_start_type, std_devs) ==
    LET period_key == IF period = 1 THEN 1 ELSE 2
        poss_type == IF Truthy(poss_start_type) THEN Lower(poss_start_type)
                     ELSE "rebound"
    IN Get(Get(std_devs, period_key, <<>>), poss_type,
           Get(Get(std_devs, period_key, <<>>), "rebound", 8500))

\* the keys of a residuals-by-type dict in insertion order
RECURSIVE KeysInOrder(_, _)
KeysInOrder(d, i) ==
    IF i > Len(BucketOrder) THEN <<>>
    ELSE (IF BucketOrder[i] \in DOMAIN d THEN <<BucketOrder[i]>> ELSE <<>>)
         \o KeysInOrder(d, i + 1)

\* variant: every stratum, observed or not, adds its variance once
RECURSIVE CombineLoopUnweighted(_, _, _, _, _, _)
CombineLoopUnweighted(d, keys, i, period, std_devs, acc) ==
    IF i > Len(keys) THEN acc
    ELSE LET res_list == d[keys[i]]
             n == Len(res_list)
             sum_res == SumSeq(res_list)
             std_dev == IF period = 1 THEN Get(std_devs[1], keys[i], std_devs[1].rebound)
                        ELSE Get(std_devs[2], keys[i], std_devs[2].rebound)
         IN CombineLoopUnweighted(d, keys, i + 1, period, std_devs,
                [total_residual |-> acc.total_residual + sum_res,
                 total_n |-> acc.total_n + n,
                 combined_variance |-> acc.combined_variance + std_dev * std_dev])

\* variant: the pooled variance is the largest stratum variance
RECURSIVE CombineLoopMaxVariance(_, _, _, _, _, _)
CombineLoopMaxVariance(d, keys, i, period, std_devs, acc) ==
    IF i > Len(keys) THEN acc
    ELSE LET res_list == d[keys[i]]
             n == Len(res_list)
             std_dev == IF period = 1 THEN Get(std_devs[1], keys[i], std_devs[1].rebound)
                        ELSE Get(std_devs[2], keys[i], std_devs[2].rebound)
             var_n == std_dev * std_dev * (acc.total_n + n)
         IN IF n = 0
            THEN CombineLoopMaxVariance(d, keys, i + 1, period, std_devs, acc)
            ELSE CombineLoopMaxVariance(d, keys, i + 1, period, std_devs,
                    [total_residual |-> acc.total_residual + SumSeq(res_list),
                     total_n |-> acc.total_n + n,
                     combined_variance |->
                         IF acc.total_n = 0 \/ var_n > (acc.combined_variance \div acc.total_n) * (acc.total_n + n)
                         THEN var_n
                         ELSE (acc.combined_variance \div acc.total_n) * (acc.total_n + n)])

\* the for loop of calculate_combined_p_value over keys[i..]
RECURSIVE CombineLoop(_, _, _, _, _, _)
CombineLoop(d, keys, i, period, std_devs, acc) ==
    IF i > Len(keys) THEN acc
    ELSE LET res_list == d[keys[i]]
         IN IF res_list = <<>>
            THEN CombineLoop(d, keys, i + 1, period, std_devs, acc)
            ELSE LET n == Len(res_list)
                     mean_res == NpMean(res_list)
                     std_dev == get_std_dev(period, keys[i], std_devs)
                 IN CombineLoop(d, keys, i + 1, period, std_devs,
                        [total_residual |-> acc.total_residual + mean_res * n,
                         total_n |-> acc.total_n + n,
                         combined_variance |->
                             acc.combined_variance + (std_dev * std_dev) * n])

calculate_combined_p_value(residuals_by_type, period, std_devs) ==
    LET acc == CombineLoop(residuals_by_type, KeysInOrder(residuals_by_type, 1), 1,
                           period, std_devs,
                           [total_residual |-> 0, total_n |-> 0,
                            combined_variance |-> 0])
    IN IF acc.total_n = 0 THEN PHalf
       ELSE LET overall_mean == DivRound(acc.total_residual, acc.total_n)
                combined_std == ISqrt(DivRound(acc.combined_variance, acc.total_n))
            IN calculate_p_value(overall_mean, acc.total_n, combined_std)

---------------------------------------------------------------------------
(* Expected Tempo Model: app.data.bigquery_loader.calculate_expected_tfs.   *)
(* Its source is not part of the files modelled here; the engine requires   *)
(* only a deterministic function of (market total, possession-start type,   *)
(* period, score differential).  The figure used: 14 s after an opponent's  *)
(* made shot, 10 s otherwise, and one second more in a close game (a known *)
(* score differential below 3 points).                                      *)

ExpectedTfs(total, poss_type, period_num, score_diff) ==
    (IF poss_type = "oppo_made_shot" THEN 14 * Scale ELSE 10 * Scale)
    + (IF score_diff # NoneNum /\ score_diff < 3 * Scale THEN Scale ELSE 0)

\* whether the Expected Tempo Model raises on a call with this type argument
EtmRaises(fault, poss_type) ==
    \/ fault = "all"
    \/ fault = "typed" /\ poss_type # NoType

---------------------------------------------------------------------------
(* build_tempo_figure: the residual try block *)

RowsOfPeriod(df, p) == SelectSeq(df, LAMBDA r : r.period_number = p)

RECURSIVE MaxScore(_, _)
\* Series.max(): the largest value that is not NaN, NaN when there is none
MaxScore(scores, best) ==
    IF scores = <<>> THEN best
    ELSE MaxScore(Tail(scores),
                  IF Head(scores) # NoneNum /\ (best = NoneNum \/ Head(scores) > best)
                  THEN Head(scores) ELSE best)

ScoreDiff(df) ==
    LET period_1_data == RowsOfPeriod(df, 1)
    IN IF Len(period_1_data) > 0
       THEN LET max_away_score ==
                    MaxScore([i \in 1..Len(period_1_data) |-> period_1_data[i].away_score], NoneNum)
                max_home_score ==
                    MaxScore([i \in 1..Len(period_1_data) |-> period_1_data[i].home_score], NoneNum)
            IN IF max_away_score # NoneNum /\ max_home_score # NoneNum
               THEN Abs(max_away_score - max_home_score) * Scale
               ELSE NoneNum
       ELSE NoneNum

EmptyLists == [b \in Buckets |-> <<>>]
ZeroCounts == [b \in Buckets |-> 0]

LoopStart ==
    [residuals |-> <<>>, residuals_p1 |-> <<>>, residuals_p2 |-> <<>>,
     residuals_by_type_p1 |-> EmptyLists, residuals_by_type_p2 |-> EmptyLists,
     above_exp_count_by_type_p1 |-> ZeroCounts, above_exp_count_by_type_p2 |-> ZeroCounts,
     total_count_by_type_p1 |-> ZeroCounts, total_count_by_type_p2 |-> ZeroCounts,
     above_exp_count |-> 0, above_exp_count_p1 |-> 0, above_exp_count_p2 |-> 0,
     etm_args |-> <<>>, raised |-> FALSE]

\* variant: a residual of exactly zero counts as above expected
TrackPeriodNonNegative(st, period_num, residual) ==
    LET up == IF residual >= 0 THEN 1 ELSE 0
    IN IF period_num = 1
       THEN [st EXCEPT !.residuals_p1 = Append(@, residual),
                       !.above_exp_count_p1 = @ + up]
       ELSE IF period_num # 0 /\ period_num >= 2
       THEN [st EXCEPT !.residuals_p2 = Append(@, residual),
                       !.above_exp_count_p2 = @ + up]
       ELSE st

\* "Track by period"
TrackPeriod(st, period_num, residual) ==
    LET up == IF residual > 0 THEN 1 ELSE 0
    IN IF period_num = 1
       THEN [st EXCEPT !.residuals_p1 = Append(@, residual),
                       !.above_exp_count_p1 = @ + up]
       ELSE IF period_num # 0 /\ period_num >= 2
       THEN [st EXCEPT !.residuals_p2 = Append(@, residual),
                       !.above_exp_count_p2 = @ + up]
       ELSE st

\* one arm of "Track by type and period", for the bucket key
TrackBucket(st, key, period_num, residual) ==
    LET up == IF residual > 0 THEN 1 ELSE 0
    IN IF period_num = 1
       THEN [st EXCEPT !.residuals_by_type_p1[key] = Append(@, residual),
                       !.total_count_by_type_p1[key] = @ + 1,
                       !.above_exp_count_by_type_p1[key] = @ + up]
       ELSE IF period_num # 0 /\ period_num >= 2
       THEN [st EXCEPT !.residuals_by_type_p2[key] = Append(@, residual),
                       !.total_count_by_type_p2[key] = @ + 1,
                       !.above_exp_count_by_type_p2[key] = @ + up]
       ELSE st

\* variant: a possession whose type is not a bucket key is not tracked by type
TrackTypeKnownOnly(st, poss_type, period_num, residual) ==
    IF poss_type \in KnownTypes
    THEN TrackBucket(st, poss_type, period_num, residual)
    ELSE st

\* "Track by type and period"
TrackType(st, poss_type, period_num, residual) ==
    IF poss_type \in DOMAIN st.residuals_by_type_p1
    THEN TrackBucket(st, poss_type, period_num, residual)
    ELSE TrackBucket(st, "other", period_num, residual)

\* the body of "for idx in range(len(full_tfs_df))" for one row
LoopBody(st, row, total, score_diff, fault) ==
    LET actual_tfs == row.action_time
        poss_type == IF row.poss_start_type # NoType
                     THEN Lower(row.poss_start_type) ELSE NoType
        period_num == row.period_number
        called == [st EXCEPT !.etm_args =
                       Append(@, <<total, poss_type, period_num, score_diff>>)]
    IN IF EtmRaises(fault, poss_type) THEN [called EXCEPT !.raised = TRUE]
       ELSE LET expected_tfs == ExpectedTfs(total, poss_type, period_num, score_diff)
                residual == actual_tfs - expected_tfs
                s1 == [called EXCEPT !.residuals = Append(@, residual)]
                s2 == TrackPeriod(s1, period_num, residual)
                s3 == TrackType(s2, poss_type, period_num, residual)
            IN [s3 EXCEPT !.above_exp_count = @ + (IF residual > 0 THEN 1 ELSE 0)]

RECURSIVE ResidualLoop(_, _, _, _, _, _)
ResidualLoop(df, idx, total, score_diff, fault, st) ==
    IF idx > Len(df) \/ st.raised THEN st
    ELSE ResidualLoop(df, idx + 1, total, score_diff, fault,
                      LoopBody(st, df[idx], total, score_diff, fault))

\* (count / total * 100) if total > 0 else 0.0
PctAbove(count, total) ==
    IF total > 0 THEN DivRound(count * Scale, total) * 100 ELSE 0

MeanOrZero(s) == IF s # <<>> THEN NpMean(s) ELSE 0
MedianOrZero(s) == IF s # <<>> THEN NpMedian(s) ELSE 0

\* the per-type dicts of one period: only the types with residuals get a key
TypeStats(lists, above, totals, period) ==
    LET present == {b \in Buckets : lists[b] # <<>>}
    IN [avg |-> [b \in present |-> NpMean(lists[b])],
        median |-> [b \in present |-> NpMedian(lists[b])],
        pct_above |-> [b \in present |-> PctAbove(above[b], totals[b])],
        count |-> [b \in present |-> totals[b]],
        p_value |-> [b \in present |->
                        calculate_p_value(NpMean(lists[b]), Len(lists[b]),
                                          get_std_dev(period, b, STD_DEVS))]]

\* the statistics computed after the loop and the residual_data dict
MakeResidualData(st) ==
    LET both == [b \in Buckets |->
                    st.residuals_by_type_p1[b] \o st.residuals_by_type_p2[b]]
        t1 == TypeStats(st.residuals_by_type_p1, st.above_exp_count_by_type_p1,
                        st.total_count_by_type_p1, 1)
        t2 == TypeStats(st.residuals_by_type_p2, st.above_exp_count_by_type_p2,
                        st.total_count_by_type_p2, 2)
        tg == TypeStats(both,
                        [b \in Buckets |-> st.above_exp_count_by_type_p1[b]
                                           + st.above_exp_count_by_type_p2[b]],
                        [b \in Buckets |-> st.total_count_by_type_p1[b]
                                           + st.total_count_by_type_p2[b]], 1)
    IN [avg_residual |-> MeanOrZero(st.residuals),
        median_residual |-> MedianOrZero(st.residuals),
        pct_above |-> PctAbove(st.above_exp_count, Len(st.residuals)),
        total_poss |-> Len(st.residuals),
        p_value |-> IF st.residuals # <<>>
                    THEN calculate_combined_p_value(both, 1, STD_DEVS) ELSE PHalf,
        avg_residual_p1 |-> MeanOrZero(st.residuals_p1),
        median_residual_p1 |-> MedianOrZero(st.residuals_p1),
        pct_above_p1 |-> PctAbove(st.above_exp_count_p1, Len(st.residuals_p1)),
        total_poss_p1 |-> Len(st.residuals_p1),
        p_value_p1 |-> IF st.residuals_p1 # <<>>
                       THEN calculate_combined_p_value(st.residuals_by_type_p1, 1, STD_DEVS)
                       ELSE PHalf,
        avg_residual_p2 |-> MeanOrZero(st.residuals_p2),
        median_residual_p2 |-> MedianOrZero(st.residuals_p2),
        pct_above_p2 |-> PctAbove(st.above_exp_count_p2, Len(st.residuals_p2)),
        total_poss_p2 |-> Len(st.residuals_p2),
        p_value_p2 |-> IF st.residuals_p2 # <<>>
                       THEN calculate_combined_p_value(st.residuals_by_type_p2, 2, STD_DEVS)
                       ELSE PHalf,
        avg_by_type |-> tg.avg, median_by_type |-> tg.median,
        pct_above_by_type |-> tg.pct_above, count_by_type |-> tg.count,
        p_value_by_type |-> tg.p_value,
        avg_by_type_p1 |-> t1.avg, median_by_type_p1 |-> t1.median,
        pct_above_by_type_p1 |-> t1.pct_above, count_by_type_p1 |-> t1.count,
        p_value_by_type_p1 |-> t1.p_value,
        avg_by_type_p2 |-> t2.avg, median_by_type_p2 |-> t2.median,
        pct_above_by_type_p2 |-> t2.pct_above, count_by_type_p2 |-> t2.count,
        p_value_by_type_p2 |-> t2.p_value]

---------------------------------------------------------------------------
(* Inputs *)

MaxN == 4
MaxP1 == 2
MaxP2 == 3
MaxP3 == 1
MaxNoPeriod == 1

SeqsUpTo(S, n) == UNION {[1..k -> S] : k \in 0..n}

Row(t, type, away, home) ==
    [action_time |-> t * Scale, poss_start_type |-> type,
     away_score |-> away, home_score |-> home]

P1Options == {Row(10, "Rebound", 30, 34), Row(14, NoType, NoneNum, NoneNum),
              Row(6, "jump_ball", 33, 31)}
P2Options == {Row(6, "rebound", 60, 70), Row(14, "rebound", 62, 70),
              Row(2, "oppo_made_shot", 64, 70)}
P3Options == {Row(14, NoType, 80, 80)}
\* a possession whose period_number is missing (NaN)
NoPeriodOptions == {Row(14, "rebound", 40, 44)}

InPeriod(rows, p) ==
    [i \in 1..Len(rows) |->
        [action_time |-> rows[i].action_time,
         poss_start_type |-> rows[i].poss_start_type,
         period_number |-> p,
         away_score |-> rows[i].away_score, home_score |-> rows[i].home_score]]

\* possession tables: rows ordered by period, as upstream produces them
Tables ==
    {InPeriod(a, 1) \o InPeriod(b, 2) \o InPeriod(c, 3) \o InPeriod(d, NoneNum) :
        a \in SeqsUpTo(P1Options, MaxP1), b \in SeqsUpTo(P2Options, MaxP2),
        c \in SeqsUpTo(P3Options, MaxP3),
        d \in SeqsUpTo(NoPeriodOptions, MaxNoPeriod)}

MarketTotal == 150 * Scale

\* a standard-deviation table whose two periods differ, and which has no
\* oppo_made_ft entry in period 2
SplitTable ==
    (1 :> [rebound |-> 7000, turnover |-> 7500,
           oppo_made_shot |-> 9500, oppo_made_ft |-> 8000])
    @@
    (2 :> [rebound |-> 8500, turnover |-> 9000, oppo_made_shot |-> 10000])

TableOf(id) == IF id = "STD_DEVS" THEN STD_DEVS ELSE SplitTable
TableIds == {"STD_DEVS", "split"}

MeanGrid == {m * (Scale \div 4) : m \in {-160, -48, -16, -5, -1, 0, 1, 5, 16, 48, 160}}
StdGrid == {0, 8500, 9000, 10000}
TypeArgs == {NoType, "", "rebound", "Rebound", "turnover", "oppo_made_shot",
             "Oppo_Made_Shot", "oppo_made_ft", "other", "jump_ball"}
ListChoices == {<<>>, <<4 * Scale>>, <<-4 * Scale, -12 * Scale>>}
KeySets == {{"rebound"}, {"rebound", "oppo_made_shot"},
            {"rebound", "oppo_made_shot", "other"}, Buckets}
DictArgs == UNION {[K -> ListChoices] : K \in KeySets}

NoCall == [fn |-> "idle", mean |-> 0, n |-> 0, std |-> 0, period |-> 0,
           type |-> NoType, table |-> "STD_DEVS", rbt |-> <<>>]
StatCalls ==
    {[NoCall EXCEPT !.fn = "calculate_p_value", !.mean = m, !.n = k, !.std = s] :
        m \in MeanGrid, k \in 0..MaxN, s \in StdGrid}
    \cup
    {[NoCall EXCEPT !.fn = "get_std_dev", !.period = p, !.type = t, !.table = id] :
        p \in {1, 2, 3}, t \in TypeArgs, id \in TableIds}
    \cup
    {[NoCall EXCEPT !.fn = "calculate_combined_p_value", !.rbt = d, !.period = p,
                    !.table = id] :
        d \in DictArgs, p \in {1, 2}, id \in TableIds}

---------------------------------------------------------------------------
(* The statistics helpers, called on their own *)

StatIdle == call = NoCall /\ ret = NoRet

CallCalculatePValue ==
    /\ call.fn = "calculate_p_value" /\ ret = NoRet
    /\ ret' = <<calculate_p_value(call.mean, call.n, call.std)>>
    /\ UNCHANGED <<call, figVars, gameVars, pairVars, trendVars, genVars>>

CallGetStdDev ==
    /\ call.fn = "get_std_dev" /\ ret = NoRet
    /\ ret' = <<get_std_dev(call.period, call.type, TableOf(call.table))>>
    /\ UNCHANGED <<call, figVars, gameVars, pairVars, trendVars, genVars>>

CallCalculateCombinedPValue ==
    /\ call.fn = "calculate_combined_p_value" /\ ret = NoRet
    /\ ret' = <<calculate_combined_p_value(call.rbt, call.period, TableOf(call.table))>>
    /\ UNCHANGED <<call, figVars, gameVars, pairVars, trendVars, genVars>>

---------------------------------------------------------------------------
(* build_tempo_figure *)

FigIdle ==
    /\ tfs_df = <<>> /\ closing_total = NoneNum /\ etm_fault = "none"
    /\ pc = "idle" /\ residual_data = NoData /\ agg = NoData /\ fig = "none"
    /\ etm_log = <<>> /\ logged = 0 /\ resid_error = FALSE

FigStart ==
    /\ tfs_df \in Tables
    /\ closing_total \in {NoneNum, MarketTotal}
    /\ etm_fault \in IF closing_total = NoneNum THEN {"none"}
                     ELSE {"none", "typed", "all"}
    /\ pc = "call" /\ residual_data = NoData /\ agg = NoData /\ fig = "none"
    /\ etm_log = <<>> /\ logged = 0 /\ resid_error = FALSE

\* "Filter to Period 1 only for display" and "Validate that we have Period 1
\* data": raise ValueError when no row has period_number 1
CheckPeriod1 ==
    /\ pc = "call"
    /\ pc' = IF Len(RowsOfPeriod(tfs_df, 1)) = 0 THEN "raised" ELSE "residuals"
    /\ UNCHANGED <<tfs_df, closing_total, etm_fault, residual_data, agg, fig,
                   etm_log, logged, resid_error, statVars, gameVars, pairVars, trendVars, genVars>>

\* "Calculate residuals early if we have closing_total": the try block, and
\* its except block, which prints the failure and leaves residual_data None
ComputeResiduals ==
    /\ pc = "residuals"
    /\ pc' = "draw"
    /\ IF closing_total # NoneNum /\ Len(tfs_df) > 0
       THEN LET st == ResidualLoop(tfs_df, 1, closing_total, ScoreDiff(tfs_df),
                                   etm_fault, LoopStart)
            IN /\ etm_log' = etm_log \o st.etm_args
               /\ IF st.raised
                  THEN /\ residual_data' = NoData /\ agg' = NoData
                       /\ logged' = logged + 1 /\ resid_error' = TRUE
                  ELSE /\ residual_data' = MakeResidualData(st) /\ agg' = st
                       /\ UNCHANGED <<logged, resid_error>>
       ELSE UNCHANGED <<residual_data, agg, etm_log, logged, resid_error>>
    /\ UNCHANGED <<tfs_df, closing_total, etm_fault, fig, statVars, gameVars, pairVars, trendVars, genVars>>

\* the expected-trend try block: one model call per Period 1 row
RECURSIVE TrendCalls(_, _, _, _, _)
TrendCalls(rows, idx, total, score_diff, fault) ==
    IF idx > Len(rows) THEN [etm_args |-> <<>>, raised |-> FALSE]
    ELSE LET poss_type == IF rows[idx].poss_start_type # NoType
                          THEN Lower(rows[idx].poss_start_type) ELSE NoType
             this == <<total, poss_type, 1, score_diff>>
         IN IF EtmRaises(fault, poss_type)
            THEN [etm_args |-> <<this>>, raised |-> TRUE]
            ELSE LET rest == TrendCalls(rows, idx + 1, total, score_diff, fault)
                 IN [etm_args |-> <<this>> \o rest.etm_args, raised |-> rest.raised]

\* the rest of the function: the figure with or without the residual table,
\* the game-level expected line (one model call, outside any try block), the
\* expected trend (inside a try block), and the return
DrawFigure ==
    /\ pc = "draw"
    /\ IF closing_total = NoneNum
       THEN /\ fig' = IF residual_data # NoData THEN "p1_with_table" ELSE "p1_only"
            /\ pc' = "returned"
            /\ UNCHANGED <<etm_log, logged>>
       ELSE LET game_level == <<closing_total, NoType, NoneNum, NoneNum>>
                trend == TrendCalls(RowsOfPeriod(tfs_df, 1), 1, closing_total,
                                    ScoreDiff(tfs_df), etm_fault)
            IN IF EtmRaises(etm_fault, NoType)
               THEN /\ pc' = "raised" /\ fig' = "none"
                    /\ etm_log' = Append(etm_log, game_level)
                    /\ UNCHANGED logged
               ELSE /\ pc' = "returned"
                    /\ fig' = IF residual_data # NoData THEN "p1_with_table"
                              ELSE "p1_only"
                    /\ etm_log' = Append(etm_log, game_level) \o trend.etm_args
                    /\ logged' = logged + (IF trend.raised THEN 1 ELSE 0)
    /\ UNCHANGED <<tfs_df, closing_total, etm_fault, residual_data, agg,
                   resid_error, statVars, gameVars, pairVars, trendVars, genVars>>

---------------------------------------------------------------------------
(* The plot cache *)

NGames == 2
GameIds == 1..NGames

\* Period 2 possessions by their residual against the model
Fast4 == Row(6, "rebound", 60, 70)
Slow4 == Row(14, "rebound", 62, 70)
Fast12 == Row(2, "oppo_made_shot", 64, 70)

GameTable(p2) == InPeriod(<<Row(10, "Rebound", 30, 34)>>, 1) \o InPeriod(p2, 2)

\* a cached game: its possession table and what its residual file holds:
\* "residual" the dict returned by build_tempo_figure (pregenerate_plots_for_games,
\* generate_cache.py), "dummy" the record generate_cache.py writes when
\* build_tempo_figure returned None, "none" no file (pregenerate_plots_for_games
\* on a falsy result)
CachedGames ==
    {[df |-> GameTable(p2), kind |-> "residual"] :
        p2 \in {<<>>, <<Fast4>>, <<Slow4>>, <<Slow4, Fast4>>,
                <<Slow4, Slow4, Fast12>>}}
    \cup {[df |-> GameTable(<<Fast4>>), kind |-> k] : k \in {"dummy", "none"}}

DummyRecord ==
    [median_residual_p2 |-> NoneNum,
     note |-> "No residual data available (missing closing_total)"]

\* the residual files written for the cached games
ResidualFiles ==
    [game \in CachedGames |->
        IF game.kind = "residual"
        THEN MakeResidualData(ResidualLoop(game.df, 1, MarketTotal,
                                           ScoreDiff(game.df), "none", LoopStart))
        ELSE IF game.kind = "dummy" THEN DummyRecord
        ELSE NoData]

\* pickle.load of the game's residual file, NoData when there is no file
load_residual_data_from_cache(game) == ResidualFiles[game]

PyBool(b) == IF b THEN "True" ELSE "False"
NoTally == [correct |-> 0, total |-> 0]

---------------------------------------------------------------------------
(* Streamlit front-end (main.py) *)

NewSession ==
    [current_game_index |-> 0, game_states |-> <<>>, score_tally |-> NoTally,
     error_log |-> 0, exception |-> FALSE]

init_game_state(game_states, game_id) ==
    IF game_id \in DOMAIN game_states THEN game_states
    ELSE game_states @@
         (game_id :> [prediction_made |-> FALSE, user_prediction |-> "None",
                      period_2_revealed |-> FALSE, correctness |-> "None"])

\* "Determine actual result" of calculate_and_update_correctness
ActualResult(median_residual_p2) ==
    IF median_residual_p2 > 0 THEN "slow" ELSE "fast"

\* variant: the scorer without its "only once" test
score_every_call(sess, game_id, rd) ==
    LET user_prediction == sess.game_states[game_id].user_prediction
        median_residual_p2 == Get(rd, "median_residual_p2", 0)
    IN IF user_prediction = "None" THEN sess
       ELSE IF median_residual_p2 = NoneNum THEN [sess EXCEPT !.exception = TRUE]
       ELSE LET user_correct == user_prediction = ActualResult(median_residual_p2)
            IN [sess EXCEPT
                   !.game_states[game_id].correctness = PyBool(user_correct),
                   !.score_tally.total = @ + 1,
                   !.score_tally.correct = @ + (IF user_correct THEN 1 ELSE 0)]

calculate_and_update_correctness(sess, game_id, rd) ==
    LET game_state == sess.game_states[game_id]
        user_prediction == game_state.user_prediction
        median_residual_p2 == Get(rd, "median_residual_p2", 0)
    IN IF user_prediction = "None" THEN sess
       ELSE IF median_residual_p2 = NoneNum
       THEN [sess EXCEPT !.exception = TRUE]      \* None > 0 raises TypeError
       ELSE LET user_correct == user_prediction = ActualResult(median_residual_p2)
            IN IF game_state.correctness = "None"
               THEN [sess EXCEPT
                        !.game_states[game_id].correctness = PyBool(user_correct),
                        !.score_tally.total = @ + 1,
                        !.score_tally.correct = @ + (IF user_correct THEN 1 ELSE 0)]
               ELSE sess

\* render_game after the prediction buttons, with the plot served from the cache
render_game(sess, game_id) ==
    LET s1 == [sess EXCEPT !.game_states = init_game_state(@, game_id)]
        game_state == s1.game_states[game_id]
        tfs == cache[game_id].df
        has_period_2 == \E i \in 1..Len(tfs) : tfs[i].period_number = 2
        rd == load_residual_data_from_cache(cache[game_id])
    IN IF /\ game_state.prediction_made /\ has_period_2 /\ rd # NoData
          /\ ~game_state.period_2_revealed
       THEN calculate_and_update_correctness(
                [s1 EXCEPT !.game_states[game_id].period_2_revealed = TRUE],
                game_id, rd)
       ELSE s1

\* one script run of _render_content from "Ensure current_game_index is valid"
\* on, including the reruns it asks for
RECURSIVE render_content(_)
render_content(sess) ==
    LET s0 == IF sess.current_game_index >= NGames
              THEN [sess EXCEPT !.current_game_index = 0] ELSE sess
        current_idx == s0.current_game_index
        current_game_id == current_idx + 1
        s1 == render_game(s0, current_game_id)
    IN IF s1.exception
       THEN [s1 EXCEPT !.exception = FALSE, !.error_log = @ + 1]
       ELSE IF /\ s1.game_states[current_game_id].prediction_made
               /\ s1.game_states[current_game_id].period_2_revealed
               /\ current_idx < NGames - 1
       THEN render_content([s1 EXCEPT !.current_game_index = @ + 1])
       ELSE s1

\* calculate_and_update_correctness called for any game id with the game's
\* residual dict; a game id without an entry in game_states reads as {}
ScorerCall(sess, game_id, rd) ==
    IF game_id \notin DOMAIN sess.game_states THEN sess
    ELSE [calculate_and_update_correctness(sess, game_id, rd)
             EXCEPT !.exception = FALSE]

\* a caller invokes the scorer directly
StScore ==
    /\ \E game_id \in GameIds :
          /\ load_residual_data_from_cache(cache[game_id]) # NoData
          /\ session_state' = ScorerCall(session_state, game_id,
                                 load_residual_data_from_cache(cache[game_id]))
    /\ UNCHANGED <<cache, pg, statVars, figVars, pairVars, trendVars, genVars>>

\* the page is loaded or rerun without a button press
StRender ==
    /\ session_state' = render_content(session_state)
    /\ UNCHANGED <<cache, pg, statVars, figVars, pairVars, trendVars, genVars>>

\* the user presses Fast or Slow on the game shown
StClick ==
    /\ session_state.current_game_index < NGames
    /\ session_state.current_game_index + 1 \in DOMAIN session_state.game_states
    /\ ~session_state.game_states[session_state.current_game_index + 1].prediction_made
    /\ \E prediction \in {"fast", "slow"} :
          session_state' = render_content(
                    [session_state EXCEPT
                        !.game_states[session_state.current_game_index + 1].user_prediction =
                            prediction,
                        !.game_states[session_state.current_game_index + 1].prediction_made =
                            TRUE])
    /\ UNCHANGED <<cache, pg, statVars, figVars, pairVars, trendVars, genVars>>

---------------------------------------------------------------------------
(* pygame front-end (game_pygame.py) *)

NewHalftimeGame ==
    [current_game_index |-> 0, game_states |-> <<>>, score_tally |-> NoTally,
     flash_active |-> FALSE, flash_color |-> "None", timer |-> FALSE,
     running |-> TRUE]

\* HalftimeGame._get_game_state
HalftimeGame_get_game_state(game_states, game_id) ==
    IF game_id \in DOMAIN game_states THEN game_states
    ELSE game_states @@
         (game_id :> [prediction_made |-> FALSE, user_prediction |-> "None",
                      correctness |-> "None"])

\* self.residual_data.get(game_id): only games with a residual file have a key
HalftimeGame_residual_data(game_id) == load_residual_data_from_cache(cache[game_id])

\* HalftimeGame._calculate_correctness
HalftimeGame_calculate_correctness(user_prediction, rd) ==
    LET p_value_p2 == Get(rd, "p_value_p2", PHalf)
        actual_result == IF p_value_p2 > PHalf THEN "slow" ELSE "fast"
        is_correct == user_prediction = actual_result
    IN <<is_correct, actual_result>>

\* HalftimeGame._handle_prediction
HalftimeGame_handle_prediction(self, prediction) ==
    IF self.current_game_index >= NGames THEN self
    ELSE LET current_game_id == self.current_game_index + 1
             s1 == [self EXCEPT !.game_states =
                                    HalftimeGame_get_game_state(@, current_game_id)]
             rd == HalftimeGame_residual_data(current_game_id)
         IN IF s1.game_states[current_game_id].prediction_made THEN s1
            ELSE LET s2 == [s1 EXCEPT
                               !.game_states[current_game_id].user_prediction = prediction,
                               !.game_states[current_game_id].prediction_made = TRUE]
                 IN IF rd # NoData /\ Get(rd, "p_value_p2", NoneNum) # NoneNum
                    THEN LET is_correct ==
                                 HalftimeGame_calculate_correctness(prediction, rd)[1]
                         IN [s2 EXCEPT
                                !.game_states[current_game_id].correctness =
                                    PyBool(is_correct),
                                !.score_tally.total = @ + 1,
                                !.score_tally.correct = @ + (IF is_correct THEN 1 ELSE 0),
                                !.flash_active = TRUE,
                                !.flash_color = IF rd.p_value_p2 < PHalf THEN "green"
                                                ELSE "red",
                                !.timer = TRUE]
                    ELSE s2

\* variant: wrapping to the first game keeps game_states and the tally
advance_without_reset(self) ==
    [self EXCEPT !.current_game_index = (@ + 1) % NGames]

\* HalftimeGame._advance_to_next_game
HalftimeGame_advance_to_next_game(self) ==
    IF self.current_game_index < NGames - 1
    THEN [self EXCEPT !.current_game_index = @ + 1]
    ELSE [self EXCEPT !.current_game_index = 0, !.game_states = <<>>,
                      !.score_tally = NoTally]

\* HalftimeGame._draw: the outcome named by the result text
HalftimeGame_result_text(rd) ==
    IF Get(rd, "p_value_p2", PHalf) > PHalf THEN "slower" ELSE "faster"

\* HalftimeGame._draw: the state it changes
HalftimeGame_draw(self, flash_over) ==
    IF self.current_game_index >= NGames THEN self
    ELSE [self EXCEPT
             !.game_states = HalftimeGame_get_game_state(@, self.current_game_index + 1),
             !.flash_active = IF @ /\ flash_over THEN FALSE ELSE @]

\* one pass of the main loop with a KEYDOWN / MOUSEBUTTONDOWN prediction event
PgPredict ==
    /\ pg.running
    /\ \E prediction \in {"fast", "slow"}, flash_over \in BOOLEAN :
          pg' = HalftimeGame_draw(HalftimeGame_handle_prediction(pg, prediction),
                                  flash_over)
    /\ UNCHANGED <<cache, session_state, statVars, figVars, pairVars, trendVars, genVars>>

\* one pass of the main loop with the USEREVENT of the auto-advance timer
PgTimerEvent ==
    /\ pg.running /\ pg.timer
    /\ \E flash_over \in BOOLEAN :
          pg' = HalftimeGame_draw(
                    [HalftimeGame_advance_to_next_game(pg) EXCEPT !.timer = FALSE],
                    flash_over)
    /\ UNCHANGED <<cache, session_state, statVars, figVars, pairVars, trendVars, genVars>>

\* one pass of the main loop without an event
PgFrame ==
    /\ pg.running
    /\ \E flash_over \in BOOLEAN : pg' = HalftimeGame_draw(pg, flash_over)
    /\ UNCHANGED <<cache, session_state, statVars, figVars, pairVars, trendVars, genVars>>

\* QUIT or the Escape key
PgQuit ==
    /\ pg.running
    /\ pg' = [pg EXCEPT !.running = FALSE]
    /\ UNCHANGED <<cache, session_state, statVars, figVars, pairVars, trendVars, genVars>>

GameIdle == cache = <<>> /\ session_state = NewSession /\ pg = NewHalftimeGame

---------------------------------------------------------------------------
(* Residual computations of several games, interleaved row by row *)

NCalls == 2
CallIds == 1..NCalls

\* the possession tables of the games analysed
GameCatalog ==
    <<GameTable(<<Slow4, Fast4>>), GameTable(<<Fast12>>),
      InPeriod(<<Row(14, NoType, NoneNum, NoneNum), Row(6, "jump_ball", 33, 31)>>, 1)
         \o InPeriod(<<Slow4>>, 2)>>

PairIdle == calls = <<>> /\ frames = <<>> /\ globals = <<>>

\* variant: the lists and counters are objects created once and used by
\* every call
SharedLocals(c) == 0

\* address of the lists and counters a call works on: the list and dict
\* displays of the residual block create new objects in every call
FreshLocals(c) == c

\* full_tfs_df = tfs_df.copy(), score_diff, and the initial lists and counters
StartCall(c) ==
    /\ calls[c].pc = "call"
    /\ calls' = [calls EXCEPT ![c].pc = "loop",
                              ![c].full_tfs_df = globals.tables[c],
                              ![c].score_diff = ScoreDiff(globals.tables[c]),
                              ![c].locals = FreshLocals(c)]
    /\ frames' = (FreshLocals(c) :> LoopStart) @@ frames
    /\ UNCHANGED <<globals, statVars, figVars, gameVars, trendVars, genVars>>

\* one pass of "for idx in range(len(full_tfs_df))"
LoopStep(c) ==
    /\ calls[c].pc = "loop"
    /\ calls[c].idx <= Len(calls[c].full_tfs_df)
    /\ frames' = [frames EXCEPT ![calls[c].locals] =
                     LoopBody(@, calls[c].full_tfs_df[calls[c].idx], MarketTotal,
                              calls[c].score_diff, "none")]
    /\ calls' = [calls EXCEPT ![c].idx = @ + 1]
    /\ UNCHANGED <<globals, statVars, figVars, gameVars, trendVars, genVars>>

\* the statistics after the loop and the residual_data dict returned
FinishCall(c) ==
    /\ calls[c].pc = "loop"
    /\ calls[c].idx > Len(calls[c].full_tfs_df)
    /\ calls' = [calls EXCEPT ![c].pc = "done",
                              ![c].residual_data =
                                  MakeResidualData(frames[calls[c].locals])]
    /\ UNCHANGED <<frames, globals, statVars, figVars, gameVars, trendVars, genVars>>

---------------------------------------------------------------------------
(* The trend layer: smoothed curve and change points of Period 1 *)

MaxSeries == 4
GridSize == 200
Bandwidth == 5

\* 1000 * exp(-k/8) for k = 0..64
ExpNegTable ==
    <<1000, 882, 779, 687, 607, 535, 472, 417, 368, 325, 287, 253, 223, 197,
      174, 153, 135, 119, 105, 93, 82, 72, 64, 56, 50, 44, 39, 34, 30, 27, 24,
      21, 18, 16, 14, 13, 11, 10, 9, 8, 7, 6, 5, 5, 4, 4, 3, 3, 2, 2, 2, 2, 2,
      1, 1, 1, 1, 1, 1, 1, 1, 0, 0, 0, 0>>

\* np.linspace(x.min(), x.max(), 200): grid point k (0-based), in units of
\* 1/(GridSize - 1) of a possession index
Linspace(lo, hi, k) == (GridSize - 1) * lo + k * (hi - lo)

\* K((g - x_i)/h) up to the constant factor of the Gaussian density, in
\* thousandths; d is |g - x_i| in grid units
GaussianKernel(d) ==
    LET unit == (GridSize - 1) * Bandwidth
        t8   == 4 * d * d
        cell == t8 \div (unit * unit)
        frac == t8 % (unit * unit)
    IN IF cell >= Len(ExpNegTable) - 1 THEN 0
       ELSE ExpNegTable[cell + 1]
            + DivRound((ExpNegTable[cell + 2] - ExpNegTable[cell + 1]) * (frac \div 1000),
                       (unit * unit) \div 1000)

\* smoothed(g) = sum_i y_i K((g - x_i)/h) / sum_i K((g - x_i)/h); every
\* product and the quotient are rounded to the representation
SmoothedAt(x, y, g) ==
    LET w == [i \in 1..Len(x) |-> GaussianKernel(Abs(g - (GridSize - 1) * x[i]))]
        terms == [i \in 1..Len(x) |-> DivRound(y[i] * w[i], Scale)]
    IN DivRound(SumSeq(terms) * Scale, SumSeq(w))

MinOf(x) == CHOOSE v \in {x[i] : i \in 1..Len(x)} : \A j \in 1..Len(x) : v <= x[j]
MaxOf(x) == CHOOSE v \in {x[i] : i \in 1..Len(x)} : \A j \in 1..Len(x) : v >= x[j]

gaussian_kernel_smoother(x, y) ==
    IF Len(x) = 0 THEN <<>>
    ELSE [k \in 1..GridSize |-> SmoothedAt(x, y, Linspace(MinOf(x), MaxOf(x), k - 1))]

\* windowed mean-shift test of the change-point detector
Window == 2
ShiftThreshold == 3 * Scale

\* variant: an index is flagged whenever the two window means are compared
MeanShiftAlways(left, right) == Abs(left - right) >= 0

MeanShift(left, right) == Abs(left - right) > ShiftThreshold

WindowMean(y, from) == NpMean(SubSeq(y, from, from + Window - 1))

\* the 0-based indices i >= p - 1 whose windows before and after differ
RECURSIVE ChangePointsFrom(_, _)
ChangePointsFrom(y, p) ==
    IF p + Window - 1 > Len(y) THEN <<>>
    ELSE (IF MeanShift(WindowMean(y, p - Window), WindowMean(y, p))
          THEN <<p - 1>> ELSE <<>>) \o ChangePointsFrom(y, p + 1)

\* empty on a sequence shorter than two windows
find_change_points(y) ==
    IF Len(y) < 2 * Window THEN <<>> ELSE ChangePointsFrom(y, Window + 1)

\* observed seconds: 6.0, 12.34 and 14.0
SeriesValues == {6 * Scale, 12340, 14 * Scale}

TrendIdle == p1_trend = <<>>

\* x and y of the Period 1 rows shown
TrendStart ==
    \E y \in SeqsUpTo(SeriesValues, MaxSeries) :
        /\ Len(y) > 0
        /\ p1_trend = [pc |-> "series", x |-> [i \in 1..Len(y) |-> i - 1], y |-> y,
                    gy |-> <<>>, cps |-> <<>>, cp_lines |-> {}]

\* grid = np.linspace(...); gx, gy = gaussian_kernel_smoother(x, y, 5, grid)
Smooth ==
    /\ p1_trend # <<>> /\ p1_trend.pc = "series"
    /\ p1_trend' = [p1_trend EXCEPT !.pc = "smoothed",
                              !.gy = gaussian_kernel_smoother(p1_trend.x, p1_trend.y)]
    /\ UNCHANGED <<statVars, figVars, gameVars, pairVars, genVars>>

\* cps = find_change_points(y) if len(y) > 0 else []
FindChangePoints ==
    /\ p1_trend # <<>> /\ p1_trend.pc = "smoothed"
    /\ p1_trend' = [p1_trend EXCEPT !.pc = "detected",
                              !.cps = IF Len(p1_trend.y) > 0
                                      THEN find_change_points(p1_trend.y) ELSE <<>>]
    /\ UNCHANGED <<statVars, figVars, gameVars, pairVars, genVars>>

\* for cp in cps: if 0 <= cp < len(x): ax.axvline(x[cp], ...)
DrawChangePoints ==
    /\ p1_trend # <<>> /\ p1_trend.pc = "detected"
    /\ p1_trend' = [p1_trend EXCEPT !.pc = "drawn",
                              !.cp_lines =
                                  {p1_trend.x[p1_trend.cps[i] + 1] :
                                      i \in {j \in 1..Len(p1_trend.cps) :
                                               0 <= p1_trend.cps[j]
                                               /\ p1_trend.cps[j] < Len(p1_trend.x)}}]
    /\ UNCHANGED <<statVars, figVars, gameVars, pairVars, genVars>>

---------------------------------------------------------------------------
(* pregenerate_plots_for_games *)

MaxIds == 3

\* a game with play-by-play and a closing total, one without a closing total,
\* and one whose play-by-play cannot be loaded
PlotGames == {"with_total", "no_total", "no_pbp"}

\* what generate_plot_for_game returns: (fig, residual_data), (fig, None),
\* or (None, None)
generate_plot_for_game(game_id) ==
    CASE game_id = "with_total" -> [fig |-> TRUE, residual_data |-> TRUE]
      [] game_id = "no_total"   -> [fig |-> TRUE, residual_data |-> FALSE]
      [] OTHER                  -> [fig |-> FALSE, residual_data |-> FALSE]

GenIdle == disk = <<>> /\ pregen = <<>> /\ plot_call = <<>>

PlotExists(d, game_id) == d.plots[game_id] > 0

RECURSIVE FilterSeq(_, _)
FilterSeq(ids, keep) ==
    IF ids = <<>> THEN <<>>
    ELSE (IF Head(ids) \in keep THEN <<Head(ids)>> ELSE <<>>)
         \o FilterSeq(Tail(ids), keep)

\* variant: every listed game is reported missing
get_missing_plots_all(game_ids, d) == game_ids

get_missing_plots(game_ids, d) ==
    FilterSeq(game_ids, {g \in PlotGames : ~PlotExists(d, g)})

PregenCall ==
    \E ids \in SeqsUpTo(PlotGames, MaxIds), inc \in BOOLEAN,
       plots \in [PlotGames -> {0, 1}], residuals \in [PlotGames -> BOOLEAN] :
        /\ disk = [plots |-> plots, residuals |-> residuals]
        /\ pregen = [pc |-> "call", game_ids |-> ids, incremental |-> inc,
                     at_call |-> plots, residuals_at_call |-> residuals,
                     games_to_process |-> <<>>, idx |-> 1,
                     cached_count |-> 0, generated_count |-> 0,
                     generated |-> <<>>, metadata |-> <<>>]
        /\ plot_call = <<>>

\* games_to_process, total, cached_count, generated_count
PregenStart ==
    /\ pregen # <<>> /\ pregen.pc = "call"
    /\ LET todo == IF pregen.incremental
                   THEN get_missing_plots(pregen.game_ids, disk)
                   ELSE pregen.game_ids
       IN pregen' = [pregen EXCEPT !.pc = "loop", !.games_to_process = todo,
                                   !.cached_count = Len(pregen.game_ids) - Len(todo)]
    /\ UNCHANGED <<disk, plot_call, statVars, figVars, gameVars, pairVars, trendVars>>

\* one pass of "for idx, game_id in enumerate(games_to_process)"
PregenStep ==
    /\ pregen # <<>> /\ pregen.pc = "loop"
    /\ pregen.idx <= Len(pregen.games_to_process)
    /\ LET game_id == pregen.games_to_process[pregen.idx]
           exists  == PlotExists(disk, game_id)
           counted == IF pregen.incremental /\ exists
                      THEN pregen.cached_count + 1 ELSE pregen.cached_count
           out     == generate_plot_for_game(game_id)
       IN IF pregen.incremental /\ exists /\ disk.residuals[game_id]
          THEN /\ pregen' = [pregen EXCEPT !.idx = @ + 1, !.cached_count = counted]
               /\ UNCHANGED disk
          ELSE /\ pregen' = [pregen EXCEPT
                                !.idx = @ + 1, !.cached_count = counted,
                                !.generated = Append(@, [game_id |-> game_id,
                                                         cached |-> exists]),
                                !.generated_count = IF out.fig THEN @ + 1 ELSE @]
               /\ disk' = [plots |-> IF out.fig
                                     THEN [disk.plots EXCEPT ![game_id] = @ + 1]
                                     ELSE disk.plots,
                           residuals |-> IF out.residual_data
                                         THEN [disk.residuals EXCEPT ![game_id] = TRUE]
                                         ELSE disk.residuals]
    /\ UNCHANGED <<plot_call, statVars, figVars, gameVars, pairVars, trendVars>>

\* the metadata saved and returned
PregenFinish ==
    /\ pregen # <<>> /\ pregen.pc = "loop"
    /\ pregen.idx > Len(pregen.games_to_process)
    /\ pregen' = [pregen EXCEPT
                     !.pc = "returned",
                     !.metadata = [total_games |-> Len(pregen.game_ids),
                                   processed_games |-> Len(pregen.games_to_process),
                                   cached_plots |-> pregen.cached_count,
                                   generated_plots |-> pregen.generated_count]]
    /\ UNCHANGED <<disk, plot_call, statVars, figVars, gameVars, pairVars, trendVars>>

---------------------------------------------------------------------------
(* generate_plot_for_game, stage by stage *)

\* what each callee does in one call: the game id string, get_pbp's result,
\* the processing stages, and build_tempo_figure
PlotCallInputs ==
    [game_id : {"numeric", "not_numeric"},
     get_pbp : {"rows", "empty", "none", "raises"},
     preprocess_pbp : {"ok", "raises"},
     compute_tfs : {"ok", "raises"},
     classify_game_status_pbp : {"ok", "raises"},
     calculate_efg_by_half : {"ok", "raises"},
     build_tempo_figure : {"fig_and_residual_data", "fig_only", "raises"}]

NoneNone == [raised |-> FALSE, fig |-> FALSE, residual_data |-> FALSE]
Raised == [raised |-> TRUE, fig |-> FALSE, residual_data |-> FALSE]

\* load_pbp: int(game_id), get_pbp, ValueError on no play data
load_pbp(c) ==
    IF c.game_id = "not_numeric" \/ c.get_pbp = "raises" THEN "raises"
    ELSE IF c.get_pbp \in {"none", "empty"} THEN "raises"
    ELSE "rows"

\* the statements of the try block; raised marks an exception leaving it
GeneratePlotBody(c) ==
    IF load_pbp(c) = "raises" THEN Raised
    ELSE IF load_pbp(c) # "rows" THEN NoneNone
    ELSE IF \/ c.preprocess_pbp = "raises" \/ c.compute_tfs = "raises"
            \/ c.classify_game_status_pbp = "raises"
            \/ c.calculate_efg_by_half = "raises"
            \/ c.build_tempo_figure = "raises"
    THEN Raised
    ELSE [raised |-> FALSE, fig |-> TRUE,
          residual_data |-> c.build_tempo_figure = "fig_and_residual_data"]

\* variant: no except block around the body
GeneratePlotUncaught(c) == GeneratePlotBody(c)

\* try: ... except Exception: print, return None, None
GeneratePlotResult(c) ==
    IF GeneratePlotBody(c).raised THEN NoneNone ELSE GeneratePlotBody(c)

PlotCallStart ==
    \E c \in PlotCallInputs : plot_call = [pc |-> "call", inputs |-> c, ret |-> NoRet]

GeneratePlotCall ==
    /\ plot_call # <<>> /\ plot_call.pc = "call"
    /\ plot_call' = [plot_call EXCEPT !.pc = "returned",
                                      !.ret = <<GeneratePlotResult(plot_call.inputs)>>]
    /\ UNCHANGED <<disk, pregen, statVars, figVars, gameVars, pairVars, trendVars>>

---------------------------------------------------------------------------
(* Specifications *)

InitStats == call \in StatCalls /\ ret = NoRet /\ FigIdle /\ GameIdle /\ PairIdle /\ TrendIdle /\ GenIdle
NextStats == CallCalculatePValue \/ CallGetStdDev \/ CallCalculateCombinedPValue
SpecStats == InitStats /\ [][NextStats]_vars

InitFig == StatIdle /\ FigStart /\ GameIdle /\ PairIdle /\ TrendIdle /\ GenIdle
NextFig == CheckPeriod1 \/ ComputeResiduals \/ DrawFigure
SpecFig == InitFig /\ [][NextFig]_vars

InitStreamlit ==
    /\ cache \in [GameIds -> CachedGames] /\ session_state = NewSession /\ pg = NewHalftimeGame
    /\ StatIdle /\ FigIdle /\ PairIdle /\ TrendIdle /\ GenIdle
NextStreamlit == StRender \/ StClick
SpecStreamlit == InitStreamlit /\ [][NextStreamlit]_vars

\* the Streamlit session with the scorer also called outside render_game
NextScorer == StRender \/ StClick \/ StScore
SpecScorer == InitStreamlit /\ [][NextScorer]_vars

InitPygame ==
    /\ cache \in [GameIds -> CachedGames] /\ session_state = NewSession /\ pg = NewHalftimeGame
    /\ StatIdle /\ FigIdle /\ PairIdle /\ TrendIdle /\ GenIdle
NextPygame == PgPredict \/ PgTimerEvent \/ PgFrame \/ PgQuit
SpecPygame == InitPygame /\ [][NextPygame]_vars

\* an armed USEREVENT timer posts its event, and the main loop handles every
\* posted event in its next pass
SpecPygameFair == SpecPygame /\ WF_vars(PgTimerEvent)

InitPair ==
    /\ \E games \in [CallIds -> 1..Len(GameCatalog)] :
          /\ calls = [c \in CallIds |->
                         [game |-> games[c], pc |-> "call", idx |-> 1,
                          full_tfs_df |-> <<>>, score_diff |-> NoneNum,
                          locals |-> 0, residual_data |-> NoData]]
          /\ globals = [tables |-> [c \in CallIds |-> GameCatalog[games[c]]],
                        STD_DEVS |-> STD_DEVS]
    /\ frames = <<>>
    /\ StatIdle /\ FigIdle /\ GameIdle /\ TrendIdle /\ GenIdle
NextPair == \E c \in CallIds : StartCall(c) \/ LoopStep(c) \/ FinishCall(c)
SpecPair == InitPair /\ [][NextPair]_vars

InitTrend == TrendStart /\ StatIdle /\ FigIdle /\ GameIdle /\ PairIdle /\ GenIdle
NextTrend == Smooth \/ FindChangePoints \/ DrawChangePoints
SpecTrend == InitTrend /\ [][NextTrend]_vars

InitPregen == PregenCall /\ StatIdle /\ FigIdle /\ GameIdle /\ PairIdle /\ TrendIdle
NextPregen == PregenStart \/ PregenStep \/ PregenFinish
SpecPregen == InitPregen /\ [][NextPregen]_vars

InitPlotCall ==
    /\ PlotCallStart /\ disk = <<>> /\ pregen = <<>>
    /\ StatIdle /\ FigIdle /\ GameIdle /\ PairIdle /\ TrendIdle
NextPlotCall == GeneratePlotCall
SpecPlotCall == InitPlotCall /\ [][NextPlotCall]_vars

---------------------------------------------------------------------------
(* Properties of the statistics helpers *)

Returned(fn) == call.fn = fn /\ ret # NoRet

AllEmpty(d) == \A k \in DOMAIN d : d[k] = <<>>

\* C3: calculate_p_value returns a value in [0, 1], and exactly 0.5 when n = 0
\* or std_dev = 0 whatever the mean is; calculate_combined_p_value returns 0.5
\* when every type's residual list is empty.
C3_PValueRange ==
    /\ Returned("calculate_p_value") =>
          /\ ret[1] >= 0 /\ ret[1] <= PScale
          /\ (call.n = 0 \/ call.std = 0) => ret[1] = PHalf
    /\ Returned("calculate_combined_p_value") =>
          /\ ret[1] >= 0 /\ ret[1] <= PScale
          /\ AllEmpty(call.rbt) => ret[1] = PHalf

C3_Witness ==
    /\ Returned("calculate_p_value")
    /\ call.n = 0 /\ call.std > 0 /\ call.mean > 0 /\ ret[1] = PHalf

\* z = mean / (std_dev / sqrt(n))
ZScore(mean, n, std) == FDiv(mean, FDiv(std, ISqrt(n * Scale * Scale)))

\* C4: for n > 0 and std_dev > 0 both branches of calculate_p_value return the
\* normal CDF at z = mean / (std_dev / sqrt(n)); the result is non-decreasing in
\* the mean, 0.5 at mean 0, above 0.5 for a positive and below 0.5 for a
\* negative mean.
C4_BranchesAgree ==
    (Returned("calculate_p_value") /\ call.n > 0 /\ call.std > 0) =>
        /\ ret[1] = NormCdf(ZScore(call.mean, call.n, call.std))
        /\ \A m \in MeanGrid :
              m <= call.mean => calculate_p_value(m, call.n, call.std) <= ret[1]
        /\ call.mean = 0 => ret[1] = PHalf
        /\ call.mean > 0 => ret[1] > PHalf
        /\ call.mean < 0 => ret[1] < PHalf

C4_Witness ==
    /\ Returned("calculate_p_value")
    /\ call.n > 1 /\ call.std > 0 /\ call.mean > 0
    /\ ret[1] > PHalf /\ ret[1] < PScale

\* the three pooled sums over a set K of types with observations
RECURSIVE StrataSums(_, _, _, _)
StrataSums(d, K, period, std_devs) ==
    IF K = {} THEN [n |-> 0, weighted_mean |-> 0, weighted_var |-> 0]
    ELSE LET k == CHOOSE x \in K : TRUE
             rest == StrataSums(d, K \ {k}, period, std_devs)
             n_k == Len(d[k])
             sigma_k == get_std_dev(period, k, std_devs)
         IN [n |-> rest.n + n_k,
             weighted_mean |-> rest.weighted_mean + NpMean(d[k]) * n_k,
             weighted_var |-> rest.weighted_var + sigma_k * sigma_k * n_k]

Pooled(d, period, std_devs) ==
    LET sums == StrataSums(d, {k \in DOMAIN d : d[k] # <<>>}, period, std_devs)
    IN IF sums.n = 0 THEN PHalf
       ELSE calculate_p_value(DivRound(sums.weighted_mean, sums.n), sums.n,
                              ISqrt(DivRound(sums.weighted_var, sums.n)))

Without(d, k) == [x \in DOMAIN d \ {k} |-> d[x]]
WithEmpty(d, k) == [x \in DOMAIN d \cup {k} |-> IF x = k THEN <<>> ELSE d[x]]

\* C8: calculate_combined_p_value is calculate_p_value of (pooled mean, total n,
\* pooled std) with total n = sum n_i, pooled mean = sum(mean_i n_i) / total n,
\* pooled std = sqrt(sum(sigma_i^2 n_i) / total n); a type with an empty list
\* contributes nothing, so removing or adding an empty stratum leaves the
\* result unchanged.
C8_Pooling ==
    Returned("calculate_combined_p_value") =>
        LET tab == TableOf(call.table) IN
        /\ ret[1] = Pooled(call.rbt, call.period, tab)
        /\ \A k \in DOMAIN call.rbt :
              call.rbt[k] = <<>> =>
                 calculate_combined_p_value(Without(call.rbt, k), call.period, tab)
                    = ret[1]
        /\ \A k \in Buckets \ DOMAIN call.rbt :
              calculate_combined_p_value(WithEmpty(call.rbt, k), call.period, tab)
                 = ret[1]

C8_Witness ==
    /\ Returned("calculate_combined_p_value")
    /\ call.rbt \in [Buckets -> ListChoices]
    /\ call.rbt["rebound"] = <<4 * Scale>>
    /\ call.rbt["oppo_made_shot"] = <<-4 * Scale, -12 * Scale>>
    /\ call.rbt["turnover"] = <<>> /\ call.rbt["other"] = <<>>
    /\ ret[1] < PHalf

\* C9: get_std_dev returns the table entry of (period, type) when there is one
\* and otherwise the 'rebound' entry of the same period; the value never comes
\* from the other period's table.
C9_SamePeriodFallback ==
    Returned("get_std_dev") =>
        LET tab == TableOf(call.table)
            own == IF call.period = 1 THEN tab[1] ELSE tab[2]
            other == IF call.period = 1 THEN tab[2] ELSE tab[1]
            key == IF Truthy(call.type) THEN Lower(call.type) ELSE "rebound"
        IN /\ ret[1] = IF key \in DOMAIN own THEN own[key] ELSE own["rebound"]
           /\ call.table = "split" =>
                 /\ \E k \in DOMAIN own : ret[1] = own[k]
                 /\ \A k \in DOMAIN other : ret[1] # other[k]

C9_Witness ==
    /\ Returned("get_std_dev")
    /\ call.table = "split" /\ call.period = 2 /\ call.type = "oppo_made_ft"
    /\ ret[1] = SplitTable[2].rebound

---------------------------------------------------------------------------
(* Properties of build_tempo_figure *)

Finished == pc \in {"returned", "raised"}

\* C5: with no market total build_tempo_figure returns a figure and None as
\* residual data, makes no call of the Expected Tempo Model and does not raise.
C5_NoTotalStillReturns ==
    (closing_total = NoneNum /\ Finished) =>
        /\ pc = "returned"
        /\ fig = "p1_only"
        /\ residual_data = NoData
        /\ etm_log = <<>>

C5_Raised ==
    /\ closing_total = NoneNum /\ pc = "raised"
    /\ tfs_df # <<>> /\ etm_log = <<>>

\* C6: when an exception is raised while the residuals are computed,
\* build_tempo_figure does not raise; it returns the Period 1 figure with
\* residual data None, and the failure is logged.
C6_ResidualFailureContained ==
    (resid_error /\ Finished) =>
        /\ pc = "returned"
        /\ fig = "p1_only"
        /\ residual_data = NoData
        /\ logged >= 1

C6_Raised ==
    /\ resid_error /\ pc = "raised" /\ logged = 1
    /\ Len(RowsOfPeriod(tfs_df, 1)) > 0

\* C7: an empty possession table, or one without a Period 1 possession, is not
\* an error: build_tempo_figure does not raise.
C7_MissingInputNotError ==
    (Len(RowsOfPeriod(tfs_df, 1)) = 0 /\ pc # "call") => pc # "raised"

C7_Raised ==
    /\ tfs_df = <<>> /\ closing_total = MarketTotal /\ pc = "raised"

RECURSIVE SumOver(_, _)
SumOver(f, K) ==
    IF K = {} THEN 0
    ELSE LET k == CHOOSE x \in K : TRUE IN f[k] + SumOver(f, K \ {k})

\* the bucket and the period a possession belongs to
BucketOf(row) ==
    LET t == IF row.poss_start_type = NoType THEN NoType
             ELSE Lower(row.poss_start_type)
    IN IF t \in KnownTypes THEN t ELSE "other"
PeriodOf(row) ==
    IF row.period_number = 1 THEN 1
    ELSE IF row.period_number # NoneNum /\ row.period_number >= 2 THEN 2
    ELSE 0
ResidualOf(row) ==
    row.action_time
    - ExpectedTfs(closing_total,
                  IF row.poss_start_type = NoType THEN NoType
                  ELSE Lower(row.poss_start_type),
                  row.period_number, ScoreDiff(tfs_df))
RowsIn(p, B) == SelectSeq(tfs_df, LAMBDA r : PeriodOf(r) = p /\ BucketOf(r) \in B)
ResidualsIn(p, B) == [i \in 1..Len(RowsIn(p, B)) |-> ResidualOf(RowsIn(p, B)[i])]

\* C10: every possession of a period lands in exactly one type bucket of that
\* period, absent and unrecognised types in 'other'; per period the bucket
\* counts sum to total_poss and the buckets' above-expected counts sum to the
\* period's above-expected count.
C10_BucketsPartition ==
    agg # NoData =>
        /\ \A b \in Buckets :
              /\ agg.residuals_by_type_p1[b] = ResidualsIn(1, {b})
              /\ agg.residuals_by_type_p2[b] = ResidualsIn(2, {b})
              /\ agg.total_count_by_type_p1[b] = Len(RowsIn(1, {b}))
              /\ agg.total_count_by_type_p2[b] = Len(RowsIn(2, {b}))
        /\ residual_data.total_poss_p1 = Len(RowsIn(1, Buckets))
        /\ residual_data.total_poss_p2 = Len(RowsIn(2, Buckets))
        /\ SumOver(agg.total_count_by_type_p1, Buckets) = residual_data.total_poss_p1
        /\ SumOver(agg.total_count_by_type_p2, Buckets) = residual_data.total_poss_p2
        /\ SumOver(residual_data.count_by_type_p1,
                   DOMAIN residual_data.count_by_type_p1) = residual_data.total_poss_p1
        /\ SumOver(residual_data.count_by_type_p2,
                   DOMAIN residual_data.count_by_type_p2) = residual_data.total_poss_p2
        /\ SumOver(agg.above_exp_count_by_type_p1, Buckets) = agg.above_exp_count_p1
        /\ SumOver(agg.above_exp_count_by_type_p2, Buckets) = agg.above_exp_count_p2
        /\ agg.above_exp_count_p1 = CountAbove(ResidualsIn(1, Buckets))
        /\ agg.above_exp_count_p2 = CountAbove(ResidualsIn(2, Buckets))

C10_Witness ==
    /\ pc = "returned" /\ agg # NoData
    /\ agg.total_count_by_type_p1["other"] = 1
    /\ agg.total_count_by_type_p2["other"] = 1
    /\ agg.total_count_by_type_p2["oppo_made_shot"] = 1
    /\ agg.total_count_by_type_p2["rebound"] = 2
    /\ agg.above_exp_count_p2 = 2

---------------------------------------------------------------------------
(* Properties of the scorers *)

StScored(g) ==
    /\ g \in DOMAIN session_state.game_states
    /\ session_state.game_states[g].correctness # "None"

PgScored(g) ==
    /\ g \in DOMAIN pg.game_states
    /\ pg.game_states[g].correctness # "None"

\* "fast" for a negative median, "slow" for a median >= 0
SignRule(median_residual_p2) == IF median_residual_p2 < 0 THEN "fast" ELSE "slow"

\* C1: a prediction scored by the Streamlit front-end is judged against the
\* sign of median_residual_p2 with the tie going to slow: a median < 0 is
\* 'fast', a median >= 0 (exactly 0 included) is 'slow'.
C1_TieGoesToSlow ==
    \A g \in GameIds :
        StScored(g) =>
            session_state.game_states[g].correctness =
                PyBool(session_state.game_states[g].user_prediction =
                       SignRule(ResidualFiles[cache[g]].median_residual_p2))

C1_TieScoredFast ==
    \E g \in GameIds :
        /\ StScored(g)
        /\ ResidualFiles[cache[g]].total_poss_p2 = 2
        /\ ResidualFiles[cache[g]].median_residual_p2 = 0
        /\ session_state.game_states[g].user_prediction = "slow"
        /\ session_state.game_states[g].correctness = "False"

\* C2: the pygame scorer and the Streamlit scorer compute the same actual
\* result from a residual record, so a prediction scored by pygame is judged
\* correct exactly when the Streamlit scorer judges it correct.
C2_SingleOracle ==
    \A g \in GameIds :
        PgScored(g) =>
            LET rd == ResidualFiles[cache[g]]
                user_prediction == pg.game_states[g].user_prediction
            IN /\ HalftimeGame_calculate_correctness(user_prediction, rd)[2]
                     = ActualResult(Get(rd, "median_residual_p2", 0))
               /\ pg.game_states[g].correctness =
                     PyBool(user_prediction
                            = ActualResult(Get(rd, "median_residual_p2", 0)))

C2_ScorersDisagree ==
    \E g \in GameIds :
        /\ PgScored(g)
        /\ ResidualFiles[cache[g]].median_residual_p2 > 0
        /\ ResidualFiles[cache[g]].p_value_p2 < PHalf
        /\ pg.game_states[g].user_prediction = "fast"
        /\ pg.game_states[g].correctness = "True"

---------------------------------------------------------------------------
(* Properties of the aggregates *)

AllResiduals == [i \in 1..Len(tfs_df) |-> ResidualOf(tfs_df[i])]

\* 100 * (number of residuals > 0) / count, 0 for an empty scope
PctOf(res) ==
    IF Len(res) = 0 THEN 0 ELSE DivRound(CountAbove(res) * Scale, Len(res)) * 100

AggregateOf(count, pct_above, res) ==
    /\ count = Len(res)
    /\ pct_above = PctOf(res)
    /\ pct_above >= 0 /\ pct_above <= 100 * Scale

\* C11: in every scope of residual_data (overall, Period 1, Period 2 and each
\* reported type of each) count is the number of residuals of the scope and
\* pct_above is 100 * (number of residuals > 0) / count, 0 for an empty scope;
\* a residual of exactly 0 is not counted as above, and pct_above is in [0, 100].
C11_CountAndPctAbove ==
    residual_data # NoData =>
        /\ AggregateOf(residual_data.total_poss, residual_data.pct_above, AllResiduals)
        /\ AggregateOf(residual_data.total_poss_p1, residual_data.pct_above_p1,
                       ResidualsIn(1, Buckets))
        /\ AggregateOf(residual_data.total_poss_p2, residual_data.pct_above_p2,
                       ResidualsIn(2, Buckets))
        /\ \A b \in DOMAIN residual_data.count_by_type_p1 :
              AggregateOf(residual_data.count_by_type_p1[b],
                          residual_data.pct_above_by_type_p1[b], ResidualsIn(1, {b}))
        /\ \A b \in DOMAIN residual_data.count_by_type_p2 :
              AggregateOf(residual_data.count_by_type_p2[b],
                          residual_data.pct_above_by_type_p2[b], ResidualsIn(2, {b}))
        /\ \A b \in DOMAIN residual_data.count_by_type :
              AggregateOf(residual_data.count_by_type[b],
                          residual_data.pct_above_by_type[b],
                          ResidualsIn(1, {b}) \o ResidualsIn(2, {b}))

C11_Witness ==
    /\ pc = "returned" /\ residual_data # NoData
    /\ ResidualsIn(1, Buckets) = <<0>>
    /\ residual_data.total_poss_p1 = 1 /\ residual_data.pct_above_p1 = 0
    /\ residual_data.total_poss_p2 = 3
    /\ residual_data.pct_above_p2 = DivRound(2 * Scale, 3) * 100
    /\ residual_data.total_poss = 4

---------------------------------------------------------------------------
(* Properties of the score differential *)

\* the differential of period p: |max away score - max home score| over the
\* rows of the period, null when a score is unavailable
PeriodDifferential(df, p) ==
    LET rows == RowsOfPeriod(df, p)
        away == MaxScore([i \in 1..Len(rows) |-> rows[i].away_score], NoneNum)
        home == MaxScore([i \in 1..Len(rows) |-> rows[i].home_score], NoneNum)
    IN IF away # NoneNum /\ home # NoneNum THEN Abs(away - home) * Scale
       ELSE NoneNum

\* C13: for every possession of the table the score differential passed to
\* the Expected Tempo Model is the differential of the possession's own
\* period; a Period 2 possession gets the Period 2 differential.
C13_OwnPeriodDifferential ==
    agg # NoData =>
        \A i \in 1..Len(tfs_df) :
            PeriodOf(tfs_df[i]) # 0 =>
                etm_log[i][4] = PeriodDifferential(tfs_df, tfs_df[i].period_number)

C13_Period1DifferentialUsed ==
    /\ agg # NoData
    /\ \E i \in 1..Len(tfs_df) :
          /\ tfs_df[i].period_number = 2
          /\ etm_log[i][4] = PeriodDifferential(tfs_df, 1)
          /\ etm_log[i][4] = 4 * Scale
          /\ PeriodDifferential(tfs_df, 2) = 10 * Scale

---------------------------------------------------------------------------
(* Properties of the type-level aggregates *)

\* the residual_data the residual block computes for a table
ResidualDataOf(df) ==
    MakeResidualData(ResidualLoop(df, 1, closing_total, ScoreDiff(df), "none",
                                  LoopStart))

RemoveAt(s, i) == [j \in 1..(Len(s) - 1) |-> IF j < i THEN s[j] ELSE s[j + 1]]

TypeDicts(rd, p) ==
    IF p = 1
    THEN <<rd.avg_by_type_p1, rd.median_by_type_p1, rd.pct_above_by_type_p1,
           rd.count_by_type_p1, rd.p_value_by_type_p1>>
    ELSE <<rd.avg_by_type_p2, rd.median_by_type_p2, rd.pct_above_by_type_p2,
           rd.count_by_type_p2, rd.p_value_by_type_p2>>

OverallOf(rd, p) ==
    IF p = 1
    THEN <<rd.avg_residual_p1, rd.median_residual_p1, rd.pct_above_p1,
           rd.total_poss_p1, rd.p_value_p1>>
    ELSE <<rd.avg_residual_p2, rd.median_residual_p2, rd.pct_above_p2,
           rd.total_poss_p2, rd.p_value_p2>>

\* row i is the only possession of its type in its period, and the table
\* without it still has a Period 1 possession
OnlyOfItsType(i) ==
    /\ PeriodOf(tfs_df[i]) \in {1, 2}
    /\ Len(RowsIn(PeriodOf(tfs_df[i]), {BucketOf(tfs_df[i])})) = 1
    /\ Len(RowsOfPeriod(RemoveAt(tfs_df, i), 1)) > 0

\* C12: a type has an entry in a period's type-level aggregates exactly when
\* the period has a possession of that type; removing the only possession of
\* a type from a period removes the type's entry for that period and leaves
\* the type-level and overall aggregates of the other period unchanged.
C12_TypePresence ==
    residual_data # NoData =>
        /\ \A p \in {1, 2} : \A k \in 1..5 :
              DOMAIN TypeDicts(residual_data, p)[k]
                 = {b \in Buckets : RowsIn(p, {b}) # <<>>}
        /\ \A i \in 1..Len(tfs_df) :
              OnlyOfItsType(i) =>
                 LET p == PeriodOf(tfs_df[i])
                     b == BucketOf(tfs_df[i])
                     rd2 == ResidualDataOf(RemoveAt(tfs_df, i))
                 IN /\ \A k \in 1..5 : b \notin DOMAIN TypeDicts(rd2, p)[k]
                    /\ TypeDicts(rd2, 3 - p) = TypeDicts(residual_data, 3 - p)
                    /\ OverallOf(rd2, 3 - p) = OverallOf(residual_data, 3 - p)

C12_SiblingPeriodChanged ==
    /\ pc = "returned" /\ residual_data # NoData
    /\ \E i \in 1..Len(tfs_df) :
          /\ OnlyOfItsType(i) /\ tfs_df[i].period_number = 1
          /\ residual_data.total_poss_p2 > 0
          /\ ResidualDataOf(RemoveAt(tfs_df, i)).avg_residual_p2
                # residual_data.avg_residual_p2
          /\ ScoreDiff(RemoveAt(tfs_df, i)) # ScoreDiff(tfs_df)

---------------------------------------------------------------------------
(* Pooling of sub-groups *)

\* (pooled_mean, total_n, pooled_std) as calculate_combined_p_value computes
\* them for the strata of d
PooledTriple(d, period, std_devs) ==
    LET acc == CombineLoop(d, KeysInOrder(d, 1), 1, period, std_devs,
                           [total_residual |-> 0, total_n |-> 0,
                            combined_variance |-> 0])
    IN [mean |-> DivRound(acc.total_residual, acc.total_n), n |-> acc.total_n,
        std |-> ISqrt(DivRound(acc.combined_variance, acc.total_n))]

\* two pooled sub-groups pooled again, weighted by their sizes
RePool(a, b) ==
    [mean |-> DivRound(a.mean * a.n + b.mean * b.n, a.n + b.n), n |-> a.n + b.n,
     std |-> ISqrt(DivRound(a.std * a.std * a.n + b.std * b.std * b.n, a.n + b.n))]

Only(d, K) == [k \in K |-> d[k]]
Observed(d) == {k \in DOMAIN d : d[k] # <<>>}
Splits(d) == {A \in SUBSET Observed(d) : A # {} /\ A # Observed(d)}

ViaSubGroups(A) ==
    RePool(PooledTriple(Only(call.rbt, A), call.period, TableOf(call.table)),
           PooledTriple(Only(call.rbt, Observed(call.rbt) \ A), call.period,
                        TableOf(call.table)))

---------------------------------------------------------------------------
(* Properties of interleaved calls *)

\* the residual_data a call returns for a table when it runs alone
AloneResidualData(df) ==
    MakeResidualData(ResidualLoop(df, 1, MarketTotal, ScoreDiff(df), "none",
                                  LoopStart))

\* C15: calls for different games share no mutable state: whatever the
\* interleaving, a finished call has the residual_data it returns when run
\* alone, and the callers' possession tables and the standard-deviation table
\* are never modified.
C15_CallsIsolated ==
    /\ \A c \in DOMAIN calls :
          calls[c].pc = "done" =>
              calls[c].residual_data = AloneResidualData(GameCatalog[calls[c].game])
    /\ \A c \in DOMAIN calls : globals.tables[c] = GameCatalog[calls[c].game]
    /\ calls # <<>> => globals.STD_DEVS = STD_DEVS

C15_Witness ==
    /\ calls # <<>>
    /\ \A c \in DOMAIN calls : calls[c].pc = "done"
    /\ calls[1].game # calls[2].game
    /\ calls[1].residual_data.total_poss_p2 = 2
    /\ calls[2].residual_data.total_poss_p2 = 1
    /\ DOMAIN frames = {1, 2}

---------------------------------------------------------------------------
(* Properties of the trend layer *)

ConstantSeries(y) == \A i \in 1..Len(y) : y[i] = y[1]

TrendDrawn == p1_trend # <<>> /\ p1_trend.pc = "drawn"

\* C16: for a constant observed Period 1 series the detector returns no
\* change point, no change-point line is drawn, and the smoothed curve equals
\* the constant at each of the 200 grid points.
C16_ConstantSeriesFlat ==
    (TrendDrawn /\ ConstantSeries(p1_trend.y)) =>
        /\ p1_trend.cps = <<>>
        /\ p1_trend.cp_lines = {}
        /\ Len(p1_trend.gy) = GridSize
        /\ \A k \in 1..GridSize : p1_trend.gy[k] = p1_trend.y[1]

C16_Witness ==
    /\ TrendDrawn /\ ConstantSeries(p1_trend.y)
    /\ Len(p1_trend.y) >= 2 * Window
    /\ Len(p1_trend.gy) = GridSize

---------------------------------------------------------------------------
(* Properties of pregenerate_plots_for_games *)

Distinct(ids) == \A i, j \in 1..Len(ids) : ids[i] = ids[j] => i = j

PregenReturned == pregen # <<>> /\ pregen.pc = "returned"

GeneratedIds == [i \in 1..Len(pregen.generated) |-> pregen.generated[i].game_id]

---------------------------------------------------------------------------
(* Properties of the pygame auto-advance *)

\* the game at index i has an accepted prediction and is still the current game
AwaitingAdvance(i) ==
    /\ pg.running /\ pg.current_game_index = i
    /\ (i + 1) \in DOMAIN pg.game_states
    /\ pg.game_states[i + 1].prediction_made

\* C18: every accepted prediction is eventually followed by an advance of
\* current_game_index (unless the player quits first), also for a game
\* without a residual file or without p_value_p2 in its residual data.
C18_PredictionLeadsToAdvance ==
    \A i \in 0..(NGames - 1) :
        AwaitingAdvance(i) ~> (pg.current_game_index # i \/ ~pg.running)

\* a prediction was accepted for a game without p_value_p2 and no timer is armed
C18_AcceptedWithoutTimer ==
    /\ AwaitingAdvance(0) /\ ~pg.timer
    /\ cache[1].kind \in {"none", "dummy"}

\* the part that holds: a prediction on a game whose residual data has
\* p_value_p2 is followed by an advance
ScoredPredictionLeadsToAdvance ==
    \A i \in 0..(NGames - 1) :
        (AwaitingAdvance(i) /\ cache[i + 1].kind = "residual")
            ~> (pg.current_game_index # i \/ ~pg.running)

---------------------------------------------------------------------------
(* Games without Period 2 residuals, and the dummy residual record *)

\* the residual file of the game reports total_poss_p2 = 0
NoPeriod2(game) ==
    game.kind = "residual" /\ ResidualFiles[game].total_poss_p2 = 0

\* this step accepts a prediction for game g in the pygame front-end
PgAccepts(g) ==
    /\ pg.current_game_index = g - 1
    /\ g \in DOMAIN pg.game_states => ~pg.game_states[g].prediction_made
    /\ g \in DOMAIN pg'.game_states /\ pg'.game_states[g].prediction_made

\* this step accepts a prediction for game g in the Streamlit front-end
StAccepts(g) ==
    /\ g \in DOMAIN session_state.game_states
          => ~session_state.game_states[g].prediction_made
    /\ g \in DOMAIN session_state'.game_states
    /\ session_state'.game_states[g].prediction_made

\* C19: for a game with no Period 2 residuals (total_poss_p2 = 0) a
\* prediction records no correctness value and leaves the score tally
\* unchanged (pygame scorer).
C19_NoPeriod2NotScored ==
    [][\A g \in GameIds :
          (NoPeriod2(cache[g]) /\ PgAccepts(g)) =>
              /\ pg'.game_states[g].correctness = "None"
              /\ pg'.score_tally = pg.score_tally]_vars

\* the same for the Streamlit scorer
StNoPeriod2NotScored ==
    [][\A g \in GameIds :
          (NoPeriod2(cache[g]) /\ StAccepts(g)) =>
              /\ session_state'.game_states[g].correctness = "None"
              /\ session_state'.score_tally = session_state.score_tally]_vars

\* the pygame front-end holds a correctness value for a game without
\* Period 2 residuals
C19_NoPeriod2Scored ==
    \E g \in DOMAIN pg.game_states :
        /\ NoPeriod2(cache[g])
        /\ pg.game_states[g].correctness # "None"
        /\ pg.score_tally.total > 0

\* the residual file of the game is the dummy record
Dummy(game) == game.kind = "dummy"

\* C20: for a game whose residual file is the dummy record, handling a
\* prediction raises no exception in the Streamlit scorer and leaves the tally
\* unchanged.
C20_DummyRecordHandled ==
    [][\A g \in GameIds :
          (Dummy(cache[g]) /\ StAccepts(g)) =>
              /\ session_state'.error_log = session_state.error_log
              /\ session_state'.game_states[g].correctness = "None"
              /\ session_state'.score_tally = session_state.score_tally]_vars

\* the same for the pygame handler, which has no exception to raise here
PgDummyRecordHandled ==
    [][\A g \in GameIds :
          (Dummy(cache[g]) /\ PgAccepts(g)) =>
              /\ pg'.game_states[g].correctness = "None"
              /\ pg'.score_tally = pg.score_tally]_vars

\* the tally and correctness part for the Streamlit scorer alone
StDummyTallyUnchanged ==
    [][\A g \in GameIds :
          (Dummy(cache[g]) /\ StAccepts(g)) =>
              /\ session_state'.game_states[g].correctness = "None"
              /\ session_state'.score_tally = session_state.score_tally]_vars

\* a prediction on a dummy-record game was accepted and the scorer's
\* exception was logged
C20_ScorerRaised ==
    /\ session_state.error_log > 0
    /\ \E g \in DOMAIN session_state.game_states :
          /\ Dummy(cache[g])
          /\ session_state.game_states[g].prediction_made
          /\ session_state.game_states[g].period_2_revealed

---------------------------------------------------------------------------
(* The pygame score tally *)

PgScoredGames ==
    {g \in DOMAIN pg.game_states : pg.game_states[g].correctness # "None"}

PgTallyInv ==
    /\ 0 <= pg.score_tally.correct
    /\ pg.score_tally.correct <= pg.score_tally.total
    /\ pg.score_tally.total <= NGames
    /\ pg.score_tally.total = Cardinality(PgScoredGames)

\* while a game with a prediction stays current, nothing changes its state or
\* the tally
PgSecondPredictionIgnored ==
    \A g \in DOMAIN pg.game_states :
        (pg.game_states[g].prediction_made
         /\ pg'.current_game_index = pg.current_game_index) =>
            /\ g \in DOMAIN pg'.game_states
            /\ pg'.game_states[g] = pg.game_states[g]
            /\ g = pg.current_game_index + 1 => pg'.score_tally = pg.score_tally

\* the step from the last game to the first
PgWrapResets ==
    (pg.current_game_index = NGames - 1 /\ pg'.current_game_index = 0) =>
        /\ pg'.score_tally = NoTally
        /\ \A g \in DOMAIN pg'.game_states :
              /\ ~pg'.game_states[g].prediction_made
              /\ pg'.game_states[g].correctness = "None"

\* C21: in the pygame game 0 <= correct <= total <= number of cached games
\* and total is the number of games whose correctness is not None; a second
\* prediction on a game changes neither its state nor the tally; wrapping
\* from the last game to the first resets game_states and the tally.
C21_PygameTally ==
    /\ []PgTallyInv
    /\ [][PgSecondPredictionIgnored /\ PgWrapResets]_vars

\* every game of the round is scored, one of them wrongly, and the timer that
\* wraps to the first game is armed
C21_Witness ==
    /\ pg.score_tally.total = NGames
    /\ pg.score_tally.correct = NGames - 1
    /\ pg.current_game_index = NGames - 1 /\ pg.timer

---------------------------------------------------------------------------
(* The pygame flash colour *)

\* the current game has been scored: the flash colour set last is its own
PgCurrentScored ==
    /\ pg.current_game_index + 1 \in DOMAIN pg.game_states
    /\ pg.game_states[pg.current_game_index + 1].correctness # "None"

PgCurrentResidual == HalftimeGame_residual_data(pg.current_game_index + 1)

PgActualResult ==
    HalftimeGame_calculate_correctness("fast", PgCurrentResidual)[2]

\* C22: the flash is green exactly when the result used for scoring is
\* 'fast' and red exactly when it is 'slow', and the result text names the
\* same outcome, also at p_value_p2 = 0.5.
C22_FlashAgreesWithResult ==
    PgCurrentScored =>
        /\ pg.flash_color = "green" <=> PgActualResult = "fast"
        /\ pg.flash_color = "red" <=> PgActualResult = "slow"
        /\ HalftimeGame_result_text(PgCurrentResidual) = "faster"
              <=> PgActualResult = "fast"

\* a game with Period 2 possessions and p_value_p2 = 0.5 was scored as 'fast'
\* and flashed red
C22_RedFlashOnFast ==
    /\ PgCurrentScored
    /\ PgCurrentResidual.total_poss_p2 > 0
    /\ PgCurrentResidual.p_value_p2 = PHalf
    /\ PgActualResult = "fast"
    /\ pg.flash_color = "red" /\ pg.flash_active

\* the part that holds: away from 0.5 colour, result and text agree
FlashAgreesAwayFromHalf ==
    (PgCurrentScored /\ PgCurrentResidual.p_value_p2 # PHalf) =>
        /\ pg.flash_color = "green" <=> PgActualResult = "fast"
        /\ HalftimeGame_result_text(PgCurrentResidual) = "faster"
              <=> PgActualResult = "fast"

---------------------------------------------------------------------------
(* The Streamlit scorer *)

StScoredGames ==
    {g \in DOMAIN session_state.game_states :
        session_state.game_states[g].correctness # "None"}

\* what a call of the scorer for game g would return in the current state
ScorerCallNow(g) ==
    ScorerCall(session_state, g, load_residual_data_from_cache(cache[g]))

\* C23: a game's prediction is scored at most once: a call of
\* calculate_and_update_correctness for a game whose correctness is set
\* leaves its correctness and the tally unchanged, a call for a game with no
\* user prediction changes nothing, and correct <= total after every call.
C23_ScoredOnce ==
    /\ session_state.score_tally.correct <= session_state.score_tally.total
    /\ session_state.score_tally.total = Cardinality(StScoredGames)
    /\ \A g \in GameIds :
          load_residual_data_from_cache(cache[g]) # NoData =>
              /\ g \in StScoredGames =>
                    /\ ScorerCallNow(g).game_states[g].correctness
                          = session_state.game_states[g].correctness
                    /\ ScorerCallNow(g).score_tally = session_state.score_tally
              /\ (g \notin DOMAIN session_state.game_states
                  \/ session_state.game_states[g].user_prediction = "None") =>
                    ScorerCallNow(g) = session_state
              /\ ScorerCallNow(g).score_tally.correct
                    <= ScorerCallNow(g).score_tally.total

\* every game has been scored, one of them as correct, so that every further
\* call of the scorer is a later call for a scored game
C23_Witness ==
    /\ StScoredGames = GameIds
    /\ session_state.score_tally.total = NGames
    /\ session_state.score_tally.correct = 1

---------------------------------------------------------------------------
(* Properties of generate_plot_for_game *)

PlotCallReturned == plot_call # <<>> /\ plot_call.pc = "returned"

\* a stage failed or yielded no data
StageFailed(c) ==
    \/ c.game_id = "not_numeric"
    \/ c.get_pbp # "rows"
    \/ c.preprocess_pbp = "raises" \/ c.compute_tfs = "raises"
    \/ c.classify_game_status_pbp = "raises"
    \/ c.calculate_efg_by_half = "raises"
    \/ c.build_tempo_figure = "raises"

\* C24: generate_plot_for_game never raises; when loading, preprocessing,
\* status classification or figure building fails or yields no data it
\* returns (None, None); residual data is never returned without a figure.
C24_NeverRaises ==
    PlotCallReturned =>
        /\ ~plot_call.ret[1].raised
        /\ StageFailed(plot_call.inputs) => plot_call.ret[1] = NoneNone
        /\ plot_call.ret[1].residual_data => plot_call.ret[1].fig

\* build_tempo_figure raised after every earlier stage succeeded, and the call
\* returned (None, None)
C24_Witness ==
    /\ PlotCallReturned
    /\ plot_call.inputs.game_id = "numeric" /\ plot_call.inputs.get_pbp = "rows"
    /\ plot_call.inputs.build_tempo_figure = "raises"
    /\ plot_call.ret[1] = NoneNone

---------------------------------------------------------------------------
(* Residual files after pregenerate_plots_for_games *)

Listed(g) == \E i \in 1..Len(pregen.game_ids) : pregen.game_ids[i] = g

\* closing_totals.get(game_id) is not None for this game
HasClosingTotal(g) == g = "with_total"

\* C25: in incremental mode a listed game whose plot is cached but whose
\* residual file is missing is still generated, and after the call every
\* listed game with a cached plot and a supplied closing total has a residual
\* file.
C25_ResidualFilesCompleted ==
    (PregenReturned /\ pregen.incremental) =>
        \A g \in PlotGames :
            /\ (Listed(g) /\ pregen.at_call[g] > 0 /\ ~pregen.residuals_at_call[g]) =>
                  \E i \in 1..Len(pregen.generated) : pregen.generated[i].game_id = g
            /\ (Listed(g) /\ PlotExists(disk, g) /\ HasClosingTotal(g)) =>
                  disk.residuals[g]

\* the call returned without generating a listed game that has a cached plot,
\* a closing total and no residual file
C25_ResidualStillMissing ==
    /\ PregenReturned /\ pregen.incremental
    /\ Listed("with_total") /\ pregen.at_call["with_total"] > 0
    /\ ~disk.residuals["with_total"]
    /\ pregen.generated = <<>>

\* the part that holds: with incremental=False the residual files of the
\* listed games with a plot and a closing total exist after the call
FullModeCompletesResidualFiles ==
    (PregenReturned /\ ~pregen.incremental) =>
        \A g \in PlotGames :
            (Listed(g) /\ PlotExists(disk, g) /\ HasClosingTotal(g)) => disk.residuals[g]

---------------------------------------------------------------------------
(* Period aggregates against the overall aggregate *)

PeriodSums ==
    /\ residual_data.total_poss
          = residual_data.total_poss_p1 + residual_data.total_poss_p2
    /\ agg.above_exp_count = agg.above_exp_count_p1 + agg.above_exp_count_p2

\* possessions of period 2, 3, ... are the Period 2 aggregate
LaterPeriodsInPeriod2 ==
    residual_data.total_poss_p2
        = Len(SelectSeq(tfs_df, LAMBDA r : r.period_number # NoneNum
                                            /\ r.period_number >= 2))

\* C26: every residual is counted in exactly one period aggregate:
\* total_poss = total_poss_p1 + total_poss_p2 and the overall above-expected
\* count is the sum of the two periods' counts in every residual_data record;
\* a possession of period 3 or later is counted in Period 2.
C26_PeriodsPartition ==
    residual_data # NoData => (PeriodSums /\ LaterPeriodsInPeriod2)

\* a table with a possession without period number: the possession is in the
\* overall aggregate and in neither period aggregate
C26_ResidualInNoPeriod ==
    /\ residual_data # NoData
    /\ \E i \in 1..Len(tfs_df) : tfs_df[i].period_number = NoneNum
    /\ residual_data.total_poss
          = residual_data.total_poss_p1 + residual_data.total_poss_p2 + 1
    /\ agg.above_exp_count = agg.above_exp_count_p1 + agg.above_exp_count_p2 + 1

\* the part that holds: when every possession has a period number
PeriodsPartitionWhenNumbered ==
    (residual_data # NoData
     /\ \A i \in 1..Len(tfs_df) : tfs_df[i].period_number # NoneNum) =>
        (PeriodSums /\ LaterPeriodsInPeriod2)

===========================================================================
